---- MODULE Spec2Model ----
(***************************************************************************)
(* Model of opdev/container-certification: the crane check engine          *)
(* (internal/crane/crane_engine.go), the policy-exception resolver          *)
(* (internal/exceptions) and the pyxis client constructor                   *)
(* (internal/submit/submit.go).                                             *)
(***************************************************************************)
EXTENDS Integers, Sequences, FiniteSets, TLC

\* ------------------------------------------------------------------ bounds
\* longest checklist handed to an engine
MaxChecks == 2
\* number of ExecuteChecks calls made on one engine
MaxRuns == 2
\* number of archive entries the exporter writes before the end marker
MaxEntries == 1

\* InitializeContainerChecks calls made in one behaviour
MaxBuilds == 3

\* ------------------------------------------------------------ value domains
\* Metadata().Level values; only "optional" is read by the engine
Levels == {"best", "optional"}

\* a checklist: position i holds the level of the check named i
Checklists == UNION {[1..n -> Levels] : n \in 0..MaxChecks}

\* Values of c.Image, the reference string of the image under test, as the
\* pieces name.ParseReference cuts it into: one image named by tag and one
\* named by digest.
TaggedImage == <<"quay.io/repo/image", ":", "v1">>

Images == {TaggedImage, <<"quay.io/repo/image", "@", "sha256:", "abc">>}

\* reference.Identifier(): the tag or the digest, what follows the separator
Identifier(image) == SubSeq(image, 3, Len(image))

\* img.Digest().String(), the digest the registry resolved the image to
ResolvedDigest == <<"sha256:", "abc">>

\* strings.HasPrefix
HasPrefix(str, prefix) ==
    Len(prefix) <= Len(str) /\ SubSeq(str, 1, Len(prefix)) = prefix

\* the message for an image given by digest
NoTagMessage == <<"You've provided an image by digest.", "no tag will be associated">>

\* mutant of tagDigestBindingInfo: the two cases are swapped
tagDigestBindingInfoSwapped(providedIdentifier, resolvedDigest) ==
    IF ~HasPrefix(providedIdentifier, <<"sha256:">>)
    THEN [msg |-> NoTagMessage, warn |-> TRUE]
    ELSE [msg |-> <<"This image's tag">> \o providedIdentifier
                    \o <<"will be paired with digest">> \o resolvedDigest,
          warn |-> FALSE]

\* tagDigestBindingInfo: the log line and whether it is a warning
tagDigestBindingInfo(providedIdentifier, resolvedDigest) ==
    IF HasPrefix(providedIdentifier, <<"sha256:">>)
    THEN [msg |-> NoTagMessage, warn |-> TRUE]
    ELSE [msg |-> <<"This image's tag">> \o providedIdentifier
                    \o <<"will be paired with digest">> \o resolvedDigest,
          warn |-> FALSE]

\* nothing was logged about the tag and the digest
NoMessage == [msg |-> <<>>, warn |-> FALSE]

\* the zero value of plugin.ImageReference
NoImageRef == [ImageURI |-> <<>>, ImageTagOrSha |-> <<>>]

\* the zero value of plugin.Results
EmptyResults ==
    [Passed |-> <<>>, Failed |-> <<>>, Errors |-> <<>>,
     PassedOverall |-> FALSE, TestedImage |-> <<>>]

\* --------------------------------------------------------------- file paths
\* a path is the sequence of its components; <<>> is the root directory
TempDir == <<"tmp">>

\* os.MkdirTemp(os.TempDir(), "preflight-*"): a name not used by another run
tmpdirOf(run) == Append(TempDir, "preflight-" \o ToString(run))

imageTarPathOf(run) == Append(tmpdirOf(run), "cache")

containerFSPathOf(run) == Append(tmpdirOf(run), "fs")

\* header.Name values the exporter may produce for directories and files
EntryNames == {<<"a">>, <<"a", "b">>, <<"..", "a">>}

\* header.Name values the exporter may produce for symbolic links; no other
\* entry name passes through them, so no path is resolved through a link
LinkNames == {<<"l">>, <<"..", "l">>}

\* tar headers: Typeflag and Name
Entries ==
    [Typeflag : {"dir", "reg"}, Name : EntryNames]
        \cup [Typeflag : {"symlink"}, Name : LinkNames]

\* the pipe holds no write
NoItem == [Typeflag |-> "none", Name |-> <<>>]

\* the end-of-archive marker on which tr.Next() returns io.EOF
EndMarker == [Typeflag |-> "end", Name |-> <<>>]

\* bytes that follow the end-of-archive marker
Padding == [Typeflag |-> "pad", Name |-> <<>>]

RECURSIVE CleanFrom(_, _)
\* filepath.Clean on a rooted path: ".." drops the component before it and
\* is itself dropped at the root
CleanFrom(stack, rest) ==
    IF rest = <<>> THEN stack
    ELSE IF Head(rest) = ".."
         THEN CleanFrom(IF stack = <<>> THEN <<>>
                        ELSE SubSeq(stack, 1, Len(stack) - 1), Tail(rest))
         ELSE CleanFrom(Append(stack, Head(rest)), Tail(rest))

\* filepath.Join(dst, header.Name): concatenate, then Clean
Join(dst, name) == CleanFrom(<<>>, dst \o name)

IsPrefix(p, q) == Len(p) <= Len(q) /\ SubSeq(q, 1, Len(p)) = p

Parent(p) == SubSeq(p, 1, Len(p) - 1)

\* the proper, non-empty-or-root prefixes of p together with p itself
Prefixes(p) == {SubSeq(p, 1, n) : n \in 0..Len(p)}

\* --------------------------------------------------------------- file system
\* a file system is a set of [path, kind] records, kind one of dir/file/link
KindOf(fs, p) ==
    IF \E e \in fs : e.path = p
    THEN (CHOOSE e \in fs : e.path = p).kind
    ELSE "none"

\* the file system every run starts from: the root and os.TempDir()
BaseFS == {[path |-> <<>>, kind |-> "dir"], [path |-> TempDir, kind |-> "dir"]}

\* os.Mkdir / os.MkdirTemp: the parent must be a directory, the name unused
MkdirOK(fs, p) == KindOf(fs, p) = "none" /\ KindOf(fs, Parent(p)) = "dir"

Mkdir(fs, p) == fs \cup {[path |-> p, kind |-> "dir"]}

\* os.MkdirAll: fails when a component exists and is no directory
MkdirAllOK(fs, p) == \A q \in Prefixes(p) : KindOf(fs, q) \in {"none", "dir"}

MkdirAll(fs, p) ==
    fs \cup {[path |-> q, kind |-> "dir"] : q \in {x \in Prefixes(p) : KindOf(fs, x) = "none"}}

\* os.OpenFile(target, O_CREATE|O_RDWR, mode)
OpenFileOK(fs, p) == KindOf(fs, Parent(p)) = "dir" /\ KindOf(fs, p) \in {"none", "file"}

OpenFile(fs, p) == fs \cup {[path |-> p, kind |-> "file"]}

\* os.Symlink(linkname, target)
SymlinkOK(fs, p) == KindOf(fs, p) = "none" /\ KindOf(fs, Parent(p)) = "dir"

Symlink(fs, p) == fs \cup {[path |-> p, kind |-> "link"]}

\* os.RemoveAll(tmpdir)
RemoveAll(fs, p) == {e \in fs : ~IsPrefix(p, e.path)}

\* One iteration of untar's loop for a header that was read: the file system
\* after it and whether untar returns an error
untarEntry(fs, dst, header) ==
    LET target == Join(dst, header.Name) IN
    CASE header.Typeflag = "dir" ->
            IF KindOf(fs, target) # "none" THEN [fs |-> fs, err |-> FALSE]
            ELSE IF MkdirAllOK(fs, target)
                 THEN [fs |-> MkdirAll(fs, target), err |-> FALSE]
                 ELSE [fs |-> fs, err |-> TRUE]
      [] header.Typeflag = "reg" ->
            IF OpenFileOK(fs, target)
            THEN [fs |-> OpenFile(fs, target), err |-> FALSE]
            ELSE [fs |-> fs, err |-> TRUE]
      [] header.Typeflag = "symlink" ->
            IF SymlinkOK(fs, target)
            THEN [fs |-> Symlink(fs, target), err |-> FALSE]
            ELSE [fs |-> fs, err |-> FALSE]

\* ------------------------------------------------------------------ results
\* mutant of appendUnlessOptional: the level is not looked at
appendAlways(res, result) == Append(res, result)

appendUnlessOptional(res, result) ==
    IF result.Level = "optional" THEN res ELSE Append(res, result)

\* plugin.Result{Check: plugin.CheckInfo{Name, Metadata, Help}}
ResultOf(checks, i) == [Name |-> i, Level |-> checks[i]]

\* mutant of classify: an error from Validate is filed under Failed
classifyErrorAsFailed(r, result, checkPassed, err) ==
    IF err \/ ~checkPassed THEN [r EXCEPT !.Failed = appendUnlessOptional(@, result)]
    ELSE [r EXCEPT !.Passed = appendUnlessOptional(@, result)]

\* mutant of classify: the boolean is looked at before the error
classifyBooleanFirst(r, result, checkPassed, err) ==
    IF checkPassed THEN [r EXCEPT !.Passed = appendUnlessOptional(@, result)]
    ELSE IF err THEN [r EXCEPT !.Errors = appendUnlessOptional(@, result)]
    ELSE [r EXCEPT !.Failed = appendUnlessOptional(@, result)]

\* the three-way classification of one Validate return
classify(r, result, checkPassed, err) ==
    IF err THEN [r EXCEPT !.Errors = appendUnlessOptional(@, result)]
    ELSE IF ~checkPassed THEN [r EXCEPT !.Failed = appendUnlessOptional(@, result)]
    ELSE [r EXCEPT !.Passed = appendUnlessOptional(@, result)]

\* mutant of overallVerdict: only the Errors collection is looked at
overallVerdictErrorsOnly(r) == ~(Len(r.Errors) > 0)

\* the verdict set after the loop
overallVerdict(r) == ~(Len(r.Errors) > 0 \/ Len(r.Failed) > 0)

\* ------------------------------------------------------------------- policy
\* policy.PolicyContainer, policy.PolicyRoot, policy.PolicyScratch
PolicyContainer == "container"

PolicyRoot == "root"

PolicyScratch == "scratch"

\* values of the certification-project-id, pyxis-api-token and pyxis-host
\* flags; the first two default to the empty string
ProjectIDs == {"", "project-1", "project-2"}

Tokens == {"", "token-1", "token-2"}

Hosts == {"", "catalog.redhat.com/api/containers", "pyxis.example.com"}

Configs == [projectID : ProjectIDs, token : Tokens, host : Hosts]

\* the nil PyxisClient
NilClient == [nil |-> TRUE, projectID |-> "", token |-> "", host |-> ""]

\* mutant of NewPyxisClient: the host is not looked at
NewPyxisClientHostUnchecked(projectID, token, host) ==
    IF projectID = "" \/ token = ""
    THEN NilClient
    ELSE [nil |-> FALSE, projectID |-> projectID, token |-> token, host |-> host]

NewPyxisClient(projectID, token, host) ==
    IF projectID = "" \/ token = "" \/ host = ""
    THEN NilClient
    ELSE [nil |-> FALSE, projectID |-> projectID, token |-> token, host |-> host]

\* no GetProject call was made
NoResponse ==
    [called |-> FALSE, err |-> FALSE, nil |-> TRUE,
     ScratchProject |-> FALSE, Privileged |-> FALSE]

\* what pc.GetProject(ctx) may return: an error, a nil project without an
\* error, or a project with its ScratchProject() and Container.Privileged
\* values
ProjectResponses ==
    [called : {TRUE}, err : {TRUE}, nil : {TRUE},
     ScratchProject : {FALSE}, Privileged : {FALSE}]
        \cup [called : {TRUE}, err : {FALSE}, nil : {TRUE},
              ScratchProject : {FALSE}, Privileged : {FALSE}]
        \cup [called : {TRUE}, err : {FALSE}, nil : {FALSE},
              ScratchProject : BOOLEAN, Privileged : BOOLEAN]

\* mutant of GetContainerPolicyExceptions: Privileged is tested before
\* ScratchProject()
GetContainerPolicyExceptionsPrivilegedFirst(resp) ==
    IF resp.err THEN [policy |-> "", err |-> "error"]
    ELSE IF resp.nil THEN [policy |-> "", err |-> "panic"]
    ELSE IF resp.Privileged THEN [policy |-> PolicyRoot, err |-> "nil"]
    ELSE IF resp.ScratchProject THEN [policy |-> PolicyScratch, err |-> "nil"]
    ELSE [policy |-> PolicyContainer, err |-> "nil"]

\* GetContainerPolicyExceptions, given what GetProject returned; reading
\* certProject.Name of a nil project panics
GetContainerPolicyExceptions(resp) ==
    IF resp.err THEN [policy |-> "", err |-> "error"]
    ELSE IF resp.nil THEN [policy |-> "", err |-> "panic"]
    ELSE IF resp.ScratchProject THEN [policy |-> PolicyScratch, err |-> "nil"]
    ELSE IF resp.Privileged THEN [policy |-> PolicyRoot, err |-> "nil"]
    ELSE [policy |-> PolicyContainer, err |-> "nil"]

\* ---------------------------------------------------------------- checklist
\* the checks of package policy, by their names
HasLicenseCheck == "HasLicense"

HasUniqueTagCheck == "HasUniqueTag"

MaxLayersCheck == "LayerCountAcceptable"

HasNoProhibitedPackagesCheck == "HasNoProhibitedPackages"

HasRequiredLabelsCheck == "HasRequiredLabel"

RunAsNonRootCheck == "RunAsNonRoot"

HasModifiedFilesCheck == "HasModifiedFiles"

BasedOnUBICheck == "BasedOnUbi"

\* values of the docker-config flag
DockerConfigs == {"", "config.json"}

\* ContainerCheckConfig
ContainerCheckConfigs ==
    [DockerConfig : DockerConfigs, PyxisAPIToken : Tokens,
     CertificationProjectID : ProjectIDs, PyxisHost : Hosts]

\* the policy values a caller may pass: the three known ones, the zero
\* value and one more
PolicyValues == {PolicyContainer, PolicyRoot, PolicyScratch, "", "operator"}

\* a check without constructor arguments
Check(name) == [Name |-> name, Arg |-> <<>>]

\* policy.NewHasUniqueTagCheck(cfg.DockerConfig)
NewHasUniqueTagCheck(dockerConfig) ==
    [Name |-> HasUniqueTagCheck, Arg |-> <<dockerConfig>>]

\* policy.NewBasedOnUbiCheck(pyxis.NewPyxisClient(host, token, projectID, ...))
NewBasedOnUbiCheck(host, token, projectID) ==
    [Name |-> BasedOnUBICheck, Arg |-> <<host, token, projectID>>]

\* the checklist of case policy.PolicyContainer
containerChecks(c) ==
    << Check(HasLicenseCheck),
       NewHasUniqueTagCheck(c.DockerConfig),
       Check(MaxLayersCheck),
       Check(HasNoProhibitedPackagesCheck),
       Check(HasRequiredLabelsCheck),
       Check(RunAsNonRootCheck),
       Check(HasModifiedFilesCheck),
       NewBasedOnUbiCheck(c.PyxisHost, c.PyxisAPIToken, c.CertificationProjectID) >>

\* the checklist of case policy.PolicyRoot
rootChecks(c) ==
    << Check(HasLicenseCheck),
       NewHasUniqueTagCheck(c.DockerConfig),
       Check(MaxLayersCheck),
       Check(HasNoProhibitedPackagesCheck),
       Check(HasRequiredLabelsCheck),
       Check(HasModifiedFilesCheck),
       NewBasedOnUbiCheck(c.PyxisHost, c.PyxisAPIToken, c.CertificationProjectID) >>

\* the checklist of case policy.PolicyScratch
scratchChecks(c) ==
    << Check(HasLicenseCheck),
       NewHasUniqueTagCheck(c.DockerConfig),
       Check(MaxLayersCheck),
       Check(HasRequiredLabelsCheck),
       Check(RunAsNonRootCheck) >>

\* a checklist returned with a nil error
Rendered(checks) == [checks |-> checks, nil |-> FALSE, err |-> FALSE]

\* return nil, fmt.Errorf("provided container policy %s is unknown", p)
UnknownPolicy == [checks |-> <<>>, nil |-> TRUE, err |-> TRUE]

\* mutant of InitializeContainerChecks: the root checklist names a check twice
InitializeContainerChecksDuplicate(p, c) ==
    IF p = PolicyContainer THEN Rendered(containerChecks(c))
    ELSE IF p = PolicyRoot THEN Rendered(rootChecks(c) \o <<Check(HasLicenseCheck)>>)
    ELSE IF p = PolicyScratch THEN Rendered(scratchChecks(c))
    ELSE UnknownPolicy

\* mutant of InitializeContainerChecks: the scratch checklist is the
\* standard one, with nothing removed
InitializeContainerChecksScratchFull(p, c) ==
    IF p = PolicyContainer THEN Rendered(containerChecks(c))
    ELSE IF p = PolicyRoot THEN Rendered(rootChecks(c))
    ELSE IF p = PolicyScratch THEN Rendered(containerChecks(c))
    ELSE UnknownPolicy

\* mutant of InitializeContainerChecks: an unknown policy gets the standard
\* checklist
InitializeContainerChecksDefaulting(p, c) ==
    IF p = PolicyRoot THEN Rendered(rootChecks(c))
    ELSE IF p = PolicyScratch THEN Rendered(scratchChecks(c))
    ELSE Rendered(containerChecks(c))

\* InitializeContainerChecks(ctx, p, cfg): the checklist and whether an error
\* is returned; nil marks the nil slice
InitializeContainerChecks(p, c) ==
    IF p = PolicyContainer THEN Rendered(containerChecks(c))
    ELSE IF p = PolicyRoot THEN Rendered(rootChecks(c))
    ELSE IF p = PolicyScratch THEN Rendered(scratchChecks(c))
    ELSE UnknownPolicy

\* --------------------------------------------------------------- submission
\* defaults.DefaultCertImageFilename
DefaultCertImageFilename == "cert-image.json"

\* defaults.DefaultRPMManifestFilename
DefaultRPMManifestFilename == "rpm-manifest.json"

\* defaults.DefaultTestResultsFilename
DefaultTestResultsFilename == "results.json"

\* s.PreflightLogFile
PreflightLogFile == "preflight.log"

\* a DockerConfig path handed to the submitter
DockerConfigFile == "config.json"

\* the files a Submit call may open
SubmitFiles ==
    {DockerConfigFile, DefaultCertImageFilename, DefaultTestResultsFilename,
     PreflightLogFile, DefaultRPMManifestFilename}

\* what os.ReadFile(s.DockerConfig) returns when the file is there
DockerConfigContent == "docker-config-json"

\* Submit has no project record
NoProject ==
    [called |-> FALSE, err |-> FALSE, nil |-> TRUE, ScratchProject |-> FALSE,
     HostedRegistry |-> FALSE, DockerConfigJSON |-> "", fetched |-> ""]

\* what s.Pyxis.GetProject(ctx) may return to Submit: an error, a nil
\* project, or a project with its ScratchProject(), Container.HostedRegistry
\* and Container.DockerConfigJSON (empty, or the encrypted string pyxis
\* keeps); fetched keeps the DockerConfigJSON as it was returned
SubmitResponses ==
    [called : {TRUE}, err : {TRUE}, nil : {TRUE}, ScratchProject : {FALSE},
     HostedRegistry : {FALSE}, DockerConfigJSON : {""}, fetched : {""}]
        \cup [called : {TRUE}, err : {FALSE}, nil : {TRUE}, ScratchProject : {FALSE},
              HostedRegistry : {FALSE}, DockerConfigJSON : {""}, fetched : {""}]
        \cup {r \in [called : {TRUE}, err : {FALSE}, nil : {FALSE},
                      ScratchProject : BOOLEAN, HostedRegistry : BOOLEAN,
                      DockerConfigJSON : {"", "pgp-encrypted"},
                      fetched : {"", "pgp-encrypted"}] :
                  r.fetched = r.DockerConfigJSON}

\* no CertificationInput has been built
NoSubmission == [built |-> FALSE, DockerConfigJSON |-> "", options |-> {}]

\* mutant of dockerConfigJSONFor: without a DockerConfig path the fetched
\* value is passed on
dockerConfigJSONKeepsFetched(dockerConfig, proj) ==
    IF proj.HostedRegistry THEN ""
    ELSE IF dockerConfig = "" THEN proj.DockerConfigJSON
    ELSE DockerConfigContent

\* lines 81-106 of Submit: the DockerConfigJSON the project record carries on
\* after them, given that the DockerConfig file could be read when one was
\* named
dockerConfigJSONFor(dockerConfig, proj) ==
    IF proj.HostedRegistry THEN ""
    ELSE IF dockerConfig = "" THEN ""
    ELSE DockerConfigContent

\* the policy Submit derives from the project record
submitPolicy(proj) == IF proj.ScratchProject THEN PolicyScratch ELSE PolicyContainer

\* mutant of filesOpened: the package manifest is opened only if it is there
filesOpenedManifestIfPresent(proj) ==
    <<DefaultCertImageFilename, DefaultTestResultsFilename, PreflightLogFile>>

\* the artifact files Submit opens for a project, in the order it opens them
filesOpened(proj) ==
    <<DefaultCertImageFilename, DefaultTestResultsFilename, PreflightLogFile>>
        \o (IF submitPolicy(proj) # PolicyScratch
            THEN <<DefaultRPMManifestFilename>> ELSE <<>>)

\* ------------------------------------------------------------------ plugins
\* defaults.DefaultPyxisHost
DefaultPyxisHost == "catalog.redhat.com/api/containers"

\* the plugins: the standard one, the first version of it, and the ones of
\* the root and the scratch exception
Plugins == {"container", "poc", "root", "scratch"}

\* pol := policy.PolicyRoot, pol := policy.PolicyScratch
policyOf(kind) == IF kind = "root" THEN PolicyRoot ELSE PolicyScratch

\* a plugin that was not initialised has no engine
NoEngine == [nil |-> TRUE, Checks |-> <<>>, IsScratch |-> FALSE]

\* the ContainerCheckConfig the standard plugin's literal checklist amounts
\* to: the docker-config flag, and a client of the default host without
\* token and project
stubbedConfig(c) ==
    [DockerConfig |-> c.DockerConfig, PyxisAPIToken |-> "",
     CertificationProjectID |-> "", PyxisHost |-> DefaultPyxisHost]

\* the literal checklist of the first version of the plugin
pocChecks ==
    << Check(HasLicenseCheck),
       NewBasedOnUbiCheck(DefaultPyxisHost, "", ""),
       Check(MaxLayersCheck) >>

\* Init of a plugin: the error it returns and the engine it leaves in
\* p.engine
pluginInit(kind, c, argsOK) ==
    IF kind = "poc"
    THEN [err |-> FALSE,
          engine |-> [nil |-> FALSE, Checks |-> pocChecks, IsScratch |-> FALSE]]
    ELSE IF ~argsOK THEN [err |-> TRUE, engine |-> NoEngine]
    ELSE IF kind = "container"
    THEN [err |-> FALSE,
          engine |-> [nil |-> FALSE, Checks |-> containerChecks(stubbedConfig(c)),
                      IsScratch |-> FALSE]]
    ELSE LET rendered == InitializeContainerChecks(policyOf(kind), c)
         IN  IF rendered.err THEN [err |-> TRUE, engine |-> NoEngine]
             ELSE [err |-> FALSE,
                   engine |-> [nil |-> FALSE, Checks |-> rendered.checks,
                               IsScratch |-> (policyOf(kind) = PolicyScratch)]]

\* the artifact files an ExecuteChecks call that returns nil has written
engineArtifacts(engine) ==
    {DefaultCertImageFilename}
        \cup (IF ~engine.IsScratch THEN {DefaultRPMManifestFilename} ELSE {})

\* no plugin was initialised
NoPlug == [stage |-> "new", kind |-> "", err |-> FALSE, engine |-> NoEngine]

\* -------------------------------------------------------------------- state
VARIABLES
    Checks,          \* CraneEngine.Checks: the levels of the checks, in order
    Image,           \* CraneEngine.Image
    imageRef,        \* CraneEngine.imageRef
    logged,          \* the tag and digest line the call in progress logged
    IsScratch,       \* CraneEngine.IsScratch
    imageEntries,    \* entries in the flattened filesystem of the image at c.Image
    results,         \* CraneEngine.results
    pc,              \* where the ExecuteChecks call in progress stands
    runs,            \* ExecuteChecks calls started on this engine
    ret,             \* what the last ExecuteChecks call returned
    idx,             \* position of the check loop in Checks
    deferred,        \* the deferred os.RemoveAll(tmpdir) is registered
    removeAttempted, \* the deferred os.RemoveAll(tmpdir) ran in this call
    validated,       \* the Validate calls of this call, with what they returned
    entryResults,    \* c.results as this call found it
    fsys,            \* the file system
    artifacts,       \* files written through the artifact writer
    exporter,        \* the exporting goroutine
    wstage,          \* how far the exporter is in its stream
    written,         \* archive entries the exporter has written
    pipeItem,        \* the write pending in the io.Pipe
    pipeClosed,      \* how the write end was closed
    leaked,          \* a goroutine of an earlier call is still blocked
    cancelled,       \* the ctx of the call in progress has been cancelled
    pkgScan,         \* the rpm.GetPackageList call of the call in progress
    ppc,             \* where the policy resolution stands
    cfg,             \* the configuration: project id, API token, pyxis host
    pyxisClient,     \* what NewPyxisClient returned
    getProjectCalls, \* GetProject calls made on the client
    project,         \* what GetProject returned
    resolved,        \* the policy the run will use, and the error reported
    bcfg,            \* the ContainerCheckConfig handed to the checklist builder
    built,           \* the InitializeContainerChecks calls made, with their returns
    spc,             \* where the Submit call stands
    sDockerConfig,   \* ContainerCertificationSubmitter.DockerConfig
    sfiles,          \* the files Submit can open
    writerOK,        \* the context carries a FilesystemWriter
    certProject,     \* what GetProject returned to Submit, as Submit updates it
    remoteCalls,     \* calls made on s.Pyxis, in order
    sret,            \* what Submit returned
    submission,      \* the CertificationInput built for SubmitResults
    plug             \* the plugin: how far it got, which one it is, p.engine

engineVars == <<Checks, Image, IsScratch, imageEntries, results>>

refVars == <<imageRef, logged>>

callVars == <<pc, runs, ret, idx, deferred, removeAttempted, validated, entryResults>>

exportVars == <<exporter, wstage, written, pipeItem, pipeClosed, leaked>>

runVars == <<engineVars, callVars, fsys, artifacts, exportVars, cancelled, refVars, pkgScan>>

policyVars == <<ppc, cfg, pyxisClient, getProjectCalls, project, resolved>>

buildVars == <<bcfg, built>>

submitVars ==
    <<spc, sDockerConfig, sfiles, writerOK, certProject, remoteCalls, sret, submission>>

pluginVars == <<plug>>

vars == <<runVars, policyVars, buildVars, submitVars, pluginVars>>

\* what the steps of an ExecuteChecks call leave alone
offRun == <<policyVars, buildVars, submitVars, pluginVars>>

\* what the steps of the policy resolution leave alone
offPolicy == <<runVars, buildVars, submitVars, pluginVars>>

\* what the checklist builder leaves alone
offBuild == <<runVars, policyVars, submitVars, pluginVars>>

\* what the steps of Submit leave alone
offSubmit == <<runVars, policyVars, buildVars, pluginVars>>

tmpdir == tmpdirOf(runs)

imageTarPath == imageTarPathOf(runs)

containerFSPath == containerFSPathOf(runs)

\* no configuration read, no client made, no policy resolved
PolicyStart ==
    /\ ppc = "start"
    /\ cfg = [projectID |-> "", token |-> "", host |-> ""]
    /\ pyxisClient = NilClient
    /\ getProjectCalls = 0
    /\ project = NoResponse
    /\ resolved = [policy |-> "", err |-> "none"]

\* no plugin has been initialised
PluginStart == plug = NoPlug

\* no checklist has been built
BuildStart ==
    /\ bcfg = [DockerConfig |-> "", PyxisAPIToken |-> "",
               CertificationProjectID |-> "", PyxisHost |-> ""]
    /\ built = <<>>

\* no Submit call has been made
SubmitStart ==
    /\ spc = "idle"
    /\ sDockerConfig = ""
    /\ sfiles = {}
    /\ writerOK = FALSE
    /\ certProject = NoProject
    /\ remoteCalls = <<>>
    /\ sret = "none"
    /\ submission = NoSubmission

\* an engine that is not run
RunStart ==
    /\ Checks = <<>> /\ imageEntries = 0 /\ IsScratch = FALSE
    /\ Image = TaggedImage
    /\ imageRef = NoImageRef /\ logged = NoMessage
    /\ results = EmptyResults
    /\ pc = "idle" /\ runs = 0 /\ ret = "none" /\ idx = 1
    /\ deferred = FALSE /\ removeAttempted = FALSE
    /\ validated = <<>> /\ entryResults = EmptyResults
    /\ fsys = BaseFS /\ artifacts = {}
    /\ exporter = "none" /\ wstage = "entries" /\ written = 0
    /\ pipeItem = NoItem /\ pipeClosed = "open" /\ leaked = FALSE
    /\ cancelled = FALSE /\ pkgScan = "none"

\* &crane.CraneEngine{...}: a checklist, the scratch flag and an image; nothing
\* has run.  Engines with any checklist are run on a tagged image with an
\* empty filesystem, engines with at most one check on tagged images of any
\* size and on an image given by digest.
Init ==
    /\ \/ Checks \in Checklists /\ imageEntries = 0 /\ Image = TaggedImage
       \/ /\ Checks \in {c \in Checklists : Len(c) <= 1}
          /\ imageEntries \in 1..MaxEntries /\ Image = TaggedImage
       \/ /\ Checks \in {c \in Checklists : Len(c) <= 1}
          /\ imageEntries = 0 /\ Image \in Images \ {TaggedImage}
    /\ IsScratch \in BOOLEAN
    /\ imageRef = NoImageRef /\ logged = NoMessage
    /\ results = EmptyResults
    /\ pc = "idle" /\ runs = 0 /\ ret = "none" /\ idx = 1
    /\ deferred = FALSE /\ removeAttempted = FALSE
    /\ validated = <<>> /\ entryResults = EmptyResults
    /\ fsys = BaseFS /\ artifacts = {}
    /\ exporter = "none" /\ wstage = "entries" /\ written = 0
    /\ pipeItem = NoItem /\ pipeClosed = "open" /\ leaked = FALSE
    /\ cancelled = FALSE /\ pkgScan = "none"
    /\ PolicyStart
    /\ PluginStart
    /\ BuildStart
    /\ SubmitStart

\* the deferred functions of ExecuteChecks, run at each return statement;
\* os.RemoveAll is taken to succeed, its error is only logged
runDeferred ==
    IF deferred
    THEN removeAttempted' = TRUE /\ fsys' = RemoveAll(fsys, tmpdir)
    ELSE UNCHANGED <<removeAttempted, fsys>>

\* A return statement of ExecuteChecks: the deferred function runs, then the
\* caller gets e
Return(e) ==
    /\ pc' = "idle"
    /\ ret' = e
    /\ deferred' = FALSE
    /\ runDeferred

\* mutant of Call: the results of the engine are cleared on entry
CallClearsResults ==
    /\ pc = "idle" /\ runs < MaxRuns
    /\ pc' = "pull"
    /\ runs' = runs + 1
    /\ ret' = "none"
    /\ idx' = 1
    /\ removeAttempted' = FALSE
    /\ validated' = <<>>
    /\ entryResults' = results
    /\ results' = EmptyResults
    /\ cancelled' = FALSE
    /\ logged' = NoMessage
    /\ pkgScan' = "none"
    /\ UNCHANGED <<Checks, Image, IsScratch, imageEntries, imageRef, deferred, fsys, artifacts, exportVars>>
    /\ UNCHANGED offRun

\* ExecuteChecks is entered
Call ==
    /\ pc = "idle" /\ runs < MaxRuns
    /\ pc' = "pull"
    /\ runs' = runs + 1
    /\ ret' = "none"
    /\ idx' = 1
    /\ removeAttempted' = FALSE
    /\ validated' = <<>>
    /\ entryResults' = results
    /\ cancelled' = FALSE
    /\ logged' = NoMessage
    /\ pkgScan' = "none"
    /\ UNCHANGED <<engineVars, imageRef, deferred, fsys, artifacts, exportVars>>
    /\ UNCHANGED offRun

\* The caller cancels the ctx it handed to the call in progress.
Cancel ==
    /\ pc # "idle" /\ ~cancelled
    /\ cancelled' = TRUE
    /\ UNCHANGED <<engineVars, callVars, fsys, artifacts, exportVars, refVars, pkgScan, offRun>>

\* crane.Pull with crane.WithContext(ctx): it fails on a cancelled ctx
Pull ==
    /\ pc = "pull"
    /\ \/ ~cancelled /\ pc' = "mktemp" /\ UNCHANGED <<ret, deferred, removeAttempted, fsys>>
       \/ Return("error")
    /\ UNCHANGED <<engineVars, runs, idx, validated, entryResults, artifacts, exportVars>>
    /\ UNCHANGED <<cancelled, refVars, pkgScan, offRun>>

\* mutant of MkdirTemp: the defer of os.RemoveAll is missing
MkdirTempNoDefer ==
    /\ pc = "mktemp"
    /\ \/ /\ MkdirOK(fsys, tmpdir)
          /\ fsys' = Mkdir(fsys, tmpdir)
          /\ pc' = "mkcache"
          /\ UNCHANGED <<ret, deferred, removeAttempted>>
       \/ Return("error")
    /\ UNCHANGED <<engineVars, runs, idx, validated, entryResults, artifacts, exportVars>>
    /\ UNCHANGED <<cancelled, refVars, pkgScan, offRun>>

\* os.MkdirTemp and the defer that follows it
MkdirTemp ==
    /\ pc = "mktemp"
    /\ \/ /\ MkdirOK(fsys, tmpdir)
          /\ fsys' = Mkdir(fsys, tmpdir)
          /\ deferred' = TRUE
          /\ pc' = "mkcache"
          /\ UNCHANGED <<ret, removeAttempted>>
       \/ Return("error")
    /\ UNCHANGED <<engineVars, runs, idx, validated, entryResults, artifacts, exportVars>>
    /\ UNCHANGED <<cancelled, refVars, pkgScan, offRun>>

\* os.Mkdir(imageTarPath)
MkdirCache ==
    /\ pc = "mkcache"
    /\ \/ /\ MkdirOK(fsys, imageTarPath)
          /\ fsys' = Mkdir(fsys, imageTarPath)
          /\ pc' = "mkfs"
          /\ UNCHANGED <<ret, deferred, removeAttempted>>
       \/ Return("error")
    /\ UNCHANGED <<engineVars, runs, idx, validated, entryResults, artifacts, exportVars>>
    /\ UNCHANGED <<cancelled, refVars, pkgScan, offRun>>

\* os.Mkdir(containerFSPath)
MkdirFS ==
    /\ pc = "mkfs"
    /\ \/ /\ MkdirOK(fsys, containerFSPath)
          /\ fsys' = Mkdir(fsys, containerFSPath)
          /\ pc' = "pipe"
          /\ UNCHANGED <<ret, deferred, removeAttempted>>
       \/ Return("error")
    /\ UNCHANGED <<engineVars, runs, idx, validated, entryResults, artifacts, exportVars>>
    /\ UNCHANGED <<cancelled, refVars, pkgScan, offRun>>

\* r, w := io.Pipe(); go func() { w.CloseWithError(export(img, w)) }().
\* A goroutine of an earlier call that still runs is let reach its next
\* blocking point first; it shares nothing with this call.
StartExport ==
    /\ pc = "pipe" /\ exporter # "running"
    /\ leaked' = (leaked \/ exporter = "blocked")
    /\ exporter' = "running"
    /\ wstage' = "entries"
    /\ written' = 0
    /\ pipeItem' = NoItem
    /\ pipeClosed' = "open"
    /\ pc' = "untar"
    /\ UNCHANGED <<engineVars, runs, ret, idx, deferred, removeAttempted,
                   validated, entryResults, fsys, artifacts>>
    /\ UNCHANGED <<cancelled, refVars, pkgScan, offRun>>

\* export: io.Copy hands the next piece of the flattened archive to w.Write,
\* which blocks until the read end has taken it
ExportWrite ==
    /\ exporter = "running"
    /\ \/ /\ wstage = "entries" /\ written < imageEntries
          /\ \E header \in Entries : pipeItem' = header
          /\ written' = written + 1
          /\ UNCHANGED wstage
       \/ /\ wstage = "entries" /\ written = imageEntries
          /\ pipeItem' = EndMarker
          /\ wstage' = "ended"
          /\ UNCHANGED written
       \/ /\ wstage = "ended"
          /\ pipeItem' = Padding
          /\ wstage' = "padded"
          /\ UNCHANGED written
    /\ exporter' = "blocked"
    /\ UNCHANGED <<engineVars, callVars, fsys, artifacts, pipeClosed, leaked>>
    /\ UNCHANGED <<cancelled, refVars, pkgScan, offRun>>

\* w.CloseWithError(err): nil once the whole archive was written, an error at
\* any point of the stream; the goroutine ends and its position is forgotten
ExportClose ==
    /\ exporter = "running"
    /\ \/ wstage \in {"ended", "padded"} /\ pipeClosed' = "eof"
       \/ pipeClosed' = "err"
    /\ exporter' = "done"
    /\ wstage' = "entries"
    /\ written' = 0
    /\ UNCHANGED <<engineVars, callVars, fsys, artifacts, pipeItem, leaked>>
    /\ UNCHANGED <<cancelled, refVars, pkgScan, offRun>>

\* the read end takes the pending write, which lets w.Write return
TakeItem ==
    /\ pipeItem' = NoItem
    /\ exporter' = "running"
    /\ UNCHANGED <<wstage, written, pipeClosed, leaked>>

\* untar: one tr.Next() and the handling of what it returned
Untar ==
    /\ pc = "untar"
    /\ \/ /\ pipeItem \in Entries
          /\ LET r == untarEntry(fsys, containerFSPath, pipeItem) IN
             IF r.err
             THEN Return("error")
             ELSE /\ fsys' = r.fs
                  /\ UNCHANGED <<pc, ret, deferred, removeAttempted>>
          /\ TakeItem
       \/ /\ pipeItem = EndMarker
          /\ pc' = "drain"
          /\ TakeItem
          /\ UNCHANGED <<ret, deferred, removeAttempted, fsys>>
       \/ /\ pipeItem = NoItem /\ pipeClosed = "err"
          /\ Return("error")
          /\ UNCHANGED exportVars
    /\ UNCHANGED <<engineVars, runs, idx, validated, entryResults, artifacts>>
    /\ UNCHANGED <<cancelled, refVars, pkgScan, offRun>>

\* mutant of Drain: the pipe is not read until it is closed
DrainDoesNotWait ==
    /\ pc = "drain"
    /\ \/ /\ pipeItem # NoItem
          /\ TakeItem
          /\ UNCHANGED <<pc, ret, deferred, removeAttempted, fsys>>
       \/ /\ pipeItem = NoItem /\ pipeClosed # "err"
          /\ pc' = "parse"
          /\ UNCHANGED <<ret, deferred, removeAttempted, fsys, exportVars>>
       \/ /\ pipeItem = NoItem /\ pipeClosed = "err"
          /\ Return("error")
          /\ UNCHANGED exportVars
    /\ UNCHANGED <<engineVars, runs, idx, validated, entryResults, artifacts>>
    /\ UNCHANGED <<cancelled, refVars, pkgScan, offRun>>

\* mutant of Drain: the error of the drain is dropped
DrainIgnoresError ==
    /\ pc = "drain"
    /\ \/ /\ pipeItem # NoItem
          /\ TakeItem
          /\ UNCHANGED <<pc, ret, deferred, removeAttempted, fsys>>
       \/ /\ pipeItem = NoItem /\ pipeClosed \in {"eof", "err"}
          /\ pc' = "parse"
          /\ UNCHANGED <<ret, deferred, removeAttempted, fsys, exportVars>>
    /\ UNCHANGED <<engineVars, runs, idx, validated, entryResults, artifacts>>
    /\ UNCHANGED <<cancelled, refVars, pkgScan, offRun>>

\* io.Copy(io.Discard, r): read until the write end is closed
Drain ==
    /\ pc = "drain"
    /\ \/ /\ pipeItem # NoItem
          /\ TakeItem
          /\ UNCHANGED <<pc, ret, deferred, removeAttempted, fsys>>
       \/ /\ pipeItem = NoItem /\ pipeClosed = "eof"
          /\ pc' = "parse"
          /\ UNCHANGED <<ret, deferred, removeAttempted, fsys, exportVars>>
       \/ /\ pipeItem = NoItem /\ pipeClosed = "err"
          /\ Return("error")
          /\ UNCHANGED exportVars
    /\ UNCHANGED <<engineVars, runs, idx, validated, entryResults, artifacts>>
    /\ UNCHANGED <<cancelled, refVars, pkgScan, offRun>>

\* mutant of ParseReference: a reference that does not parse sends the call
\* back to the pull
ParseReferenceRetriesPull ==
    /\ pc = "parse"
    /\ \/ /\ imageRef' = [ImageURI |-> Image, ImageTagOrSha |-> Identifier(Image)]
          /\ pc' = "certimage"
       \/ pc' = "pull" /\ UNCHANGED imageRef
    /\ UNCHANGED <<ret, deferred, removeAttempted, fsys>>
    /\ UNCHANGED <<engineVars, runs, idx, validated, entryResults, artifacts, exportVars>>
    /\ UNCHANGED <<cancelled, logged, pkgScan, offRun>>

\* name.ParseReference(c.Image) and the c.imageRef assignment
ParseReference ==
    /\ pc = "parse"
    /\ \/ /\ imageRef' = [ImageURI |-> Image, ImageTagOrSha |-> Identifier(Image)]
          /\ pc' = "certimage"
          /\ UNCHANGED <<ret, deferred, removeAttempted, fsys>>
       \/ Return("error") /\ UNCHANGED imageRef
    /\ UNCHANGED <<engineVars, runs, idx, validated, entryResults, artifacts, exportVars>>
    /\ UNCHANGED <<cancelled, logged, pkgScan, offRun>>

\* mutant of WriteCertImage: the package manifest is written whatever
\* c.IsScratch says
WriteCertImageThenAlwaysRPM ==
    /\ pc = "certimage"
    /\ \/ /\ artifacts' = artifacts \cup {"cert-image.json"}
          /\ pc' = "rpm"
          /\ UNCHANGED <<ret, deferred, removeAttempted, fsys>>
       \/ Return("error") /\ UNCHANGED artifacts
    /\ UNCHANGED <<engineVars, runs, idx, validated, entryResults, exportVars>>
    /\ UNCHANGED <<cancelled, refVars, pkgScan, offRun>>

\* writeCertImage(ctx, c.imageRef)
WriteCertImage ==
    /\ pc = "certimage"
    /\ \/ /\ artifacts' = artifacts \cup {"cert-image.json"}
          /\ pc' = IF ~IsScratch THEN "rpm" ELSE "loop"
          /\ UNCHANGED <<ret, deferred, removeAttempted, fsys>>
       \/ Return("error") /\ UNCHANGED artifacts
    /\ UNCHANGED <<engineVars, runs, idx, validated, entryResults, exportVars>>
    /\ UNCHANGED <<cancelled, refVars, pkgScan, offRun>>

\* writeRPMManifest(ctx, containerFSPath): rpm.GetPackageList scans the
\* extracted filesystem, a failed scan is logged and leaves an empty list;
\* the manifest is then written through the artifact writer, and a failed
\* write is returned, which ends ExecuteChecks
WriteRPMManifest ==
    /\ pc = "rpm"
    /\ \E scanOK \in BOOLEAN : pkgScan' = IF scanOK THEN "ok" ELSE "failed"
    /\ \/ /\ artifacts' = artifacts \cup {DefaultRPMManifestFilename}
          /\ pc' = "loop"
          /\ UNCHANGED <<ret, deferred, removeAttempted, fsys>>
       \/ Return("error") /\ UNCHANGED artifacts
    /\ UNCHANGED <<engineVars, runs, idx, validated, entryResults, exportVars>>
    /\ UNCHANGED <<cancelled, refVars, offRun>>

\* mutant of RunCheck: the loop is left at the first error (break for continue)
RunCheckBreakOnError ==
    /\ pc = "loop" /\ idx <= Len(Checks)
    /\ \E checkPassed \in BOOLEAN, err \in BOOLEAN :
          /\ results' = classify([results EXCEPT !.TestedImage = Image],
                                 ResultOf(Checks, idx), checkPassed, err)
          /\ validated' = Append(validated,
                                 [check |-> idx, checkPassed |-> checkPassed, err |-> err])
          /\ idx' = IF err THEN Len(Checks) + 1 ELSE idx + 1
    /\ UNCHANGED <<Checks, Image, IsScratch, imageEntries, pc, runs, ret, deferred, removeAttempted,
                   entryResults, fsys, artifacts, exportVars>>
    /\ UNCHANGED <<cancelled, refVars, pkgScan, offRun>>

\* mutant of RunCheck: an error from Validate is returned to the caller
RunCheckReturnsError ==
    /\ pc = "loop" /\ idx <= Len(Checks)
    /\ \E checkPassed \in BOOLEAN, err \in BOOLEAN :
          /\ results' = classify([results EXCEPT !.TestedImage = Image],
                                 ResultOf(Checks, idx), checkPassed, err)
          /\ validated' = Append(validated,
                                 [check |-> idx, checkPassed |-> checkPassed, err |-> err])
          /\ IF err THEN Return("error")
                    ELSE UNCHANGED <<pc, ret, deferred, removeAttempted, fsys>>
    /\ idx' = idx + 1
    /\ UNCHANGED <<Checks, Image, IsScratch, imageEntries, runs, entryResults, artifacts, exportVars>>
    /\ UNCHANGED <<cancelled, refVars, pkgScan, offRun>>

\* mutant of RunCheck: the temporary directory is removed inside the loop
RunCheckRemovesTmpdir ==
    /\ pc = "loop" /\ idx <= Len(Checks)
    /\ \E checkPassed \in BOOLEAN, err \in BOOLEAN :
          /\ results' = classify([results EXCEPT !.TestedImage = Image],
                                 ResultOf(Checks, idx), checkPassed, err)
          /\ validated' = Append(validated,
                                 [check |-> idx, checkPassed |-> checkPassed, err |-> err])
    /\ idx' = idx + 1
    /\ fsys' = RemoveAll(fsys, tmpdir)
    /\ UNCHANGED <<Checks, Image, IsScratch, imageEntries, pc, runs, ret, deferred, removeAttempted,
                   entryResults, artifacts, exportVars>>
    /\ UNCHANGED <<cancelled, refVars, pkgScan, offRun>>

\* one iteration of the loop over c.Checks
RunCheck ==
    /\ pc = "loop" /\ idx <= Len(Checks)
    /\ \E checkPassed \in BOOLEAN, err \in BOOLEAN :
          /\ results' = classify([results EXCEPT !.TestedImage = Image],
                                 ResultOf(Checks, idx), checkPassed, err)
          /\ validated' = Append(validated,
                                 [check |-> idx, checkPassed |-> checkPassed, err |-> err])
    /\ idx' = idx + 1
    /\ UNCHANGED <<Checks, Image, IsScratch, imageEntries, pc, runs, ret, deferred, removeAttempted,
                   entryResults, fsys, artifacts, exportVars>>
    /\ UNCHANGED <<cancelled, refVars, pkgScan, offRun>>

\* after the loop: the verdict, the tag/digest log line, return nil
Finish ==
    /\ pc = "loop" /\ idx > Len(Checks)
    /\ results' = [results EXCEPT !.PassedOverall = overallVerdict(results)]
    /\ \E digestOK \in BOOLEAN :
          logged' = IF digestOK
                    THEN tagDigestBindingInfo(imageRef.ImageTagOrSha, ResolvedDigest)
                    ELSE NoMessage
    /\ Return("nil")
    /\ UNCHANGED <<Checks, Image, IsScratch, imageEntries, runs, idx, validated, entryResults,
                   artifacts, exportVars>>
    /\ UNCHANGED <<cancelled, imageRef, pkgScan, offRun>>

\* --------------------------------------------------------- policy resolution
\* the flags are read
Configure ==
    /\ ppc = "start"
    /\ cfg' \in Configs
    /\ ppc' = "configured"
    /\ UNCHANGED <<offPolicy, pyxisClient, getProjectCalls, project, resolved>>

\* pc := NewPyxisClient(ctx, projectID, token, host)
MakeClient ==
    /\ ppc = "configured"
    /\ pyxisClient' = NewPyxisClient(cfg.projectID, cfg.token, cfg.host)
    /\ ppc' = "client"
    /\ UNCHANGED <<offPolicy, cfg, getProjectCalls, project, resolved>>

\* The caller of the resolver: with a nil client the lookup is skipped and
\* the standard policy is used, without an error; with a client the policy
\* is what GetContainerPolicyExceptions returns.
ResolvePolicy ==
    /\ ppc = "client"
    /\ \/ /\ pyxisClient.nil
          /\ resolved' = [policy |-> PolicyContainer, err |-> "nil"]
          /\ UNCHANGED <<getProjectCalls, project>>
       \/ /\ ~pyxisClient.nil
          /\ \E resp \in ProjectResponses :
                /\ project' = resp
                /\ resolved' = GetContainerPolicyExceptions(resp)
          /\ getProjectCalls' = getProjectCalls + 1
    /\ ppc' = "done"
    /\ UNCHANGED <<offPolicy, cfg, pyxisClient>>

NextPolicy ==
    \/ Configure
    \/ MakeClient
    \/ ResolvePolicy

\* policy resolution alone, on an engine that is never run
InitPolicy ==
    /\ RunStart
    /\ PolicyStart
    /\ PluginStart
    /\ BuildStart
    /\ SubmitStart

SpecPolicy == InitPolicy /\ [][NextPolicy]_vars

\* --------------------------------------------------------- checklist builder
\* a plugin's Init renders the checklist of a policy:
\* renderedChecks, err := checks.InitializeContainerChecks(ctx, pol, cfg)
InitializeChecks ==
    /\ Len(built) < MaxBuilds
    /\ \E p \in PolicyValues :
         built' = Append(built, [policy |-> p,
                                 ret |-> InitializeContainerChecks(p, bcfg)])
    /\ UNCHANGED <<offBuild, bcfg>>

NextChecks == InitializeChecks

\* the checklist builder alone, under every configuration
InitChecks ==
    /\ RunStart
    /\ PolicyStart
    /\ PluginStart
    /\ bcfg \in ContainerCheckConfigs
    /\ built = <<>>
    /\ SubmitStart

SpecChecks == InitChecks /\ [][NextChecks]_vars

\* ------------------------------------------------------------------- Submit
\* a return statement of Submit
SubmitReturn(e) ==
    /\ spc' = "idle"
    /\ sret' = e

\* Submit is entered, once
SubmitCall ==
    /\ spc = "idle" /\ sret = "none"
    /\ spc' = "getProject"
    /\ UNCHANGED <<offSubmit, sDockerConfig, sfiles, writerOK, certProject,
                   remoteCalls, sret, submission>>

\* mutant of SubmitGetProject: a nil project is not refused
SubmitGetProjectNoNilCheck ==
    /\ spc = "getProject"
    /\ remoteCalls' = Append(remoteCalls, "GetProject")
    /\ \E resp \in SubmitResponses :
         /\ certProject' = resp
         /\ IF resp.err
            THEN SubmitReturn("error")
            ELSE spc' = "dockerConfig" /\ UNCHANGED sret
    /\ UNCHANGED <<offSubmit, sDockerConfig, sfiles, writerOK, submission>>

\* certProject, err := s.Pyxis.GetProject(ctx), and the two checks on what
\* it returned
SubmitGetProject ==
    /\ spc = "getProject"
    /\ remoteCalls' = Append(remoteCalls, "GetProject")
    /\ \E resp \in SubmitResponses :
         /\ certProject' = resp
         /\ IF resp.err \/ resp.nil
            THEN SubmitReturn("error")
            ELSE spc' = "dockerConfig" /\ UNCHANGED sret
    /\ UNCHANGED <<offSubmit, sDockerConfig, sfiles, writerOK, submission>>

\* the DockerConfig file is read when one is named, and DockerConfigJSON of
\* the project record is set; then the artifact writer is taken from the
\* context
SubmitDockerConfig ==
    /\ spc = "dockerConfig"
    /\ IF sDockerConfig # "" /\ sDockerConfig \notin sfiles
       THEN SubmitReturn("error") /\ UNCHANGED certProject
       ELSE /\ certProject' =
                 [certProject EXCEPT !.DockerConfigJSON =
                      dockerConfigJSONFor(sDockerConfig, certProject)]
            /\ IF ~writerOK
               THEN SubmitReturn("error")
               ELSE spc' = "open" /\ UNCHANGED sret
    /\ UNCHANGED <<offSubmit, sDockerConfig, sfiles, writerOK, remoteCalls, submission>>

\* the artifact files are opened one after the other, the first that is
\* missing ends the call; then the CertificationInput is built
SubmitOpenArtifacts ==
    /\ spc = "open"
    /\ IF \E i \in DOMAIN filesOpened(certProject) :
             filesOpened(certProject)[i] \notin sfiles
       THEN SubmitReturn("error") /\ UNCHANGED submission
       ELSE \E inputOK \in BOOLEAN :
              IF inputOK
              THEN /\ submission' =
                        [built |-> TRUE,
                         DockerConfigJSON |-> certProject.DockerConfigJSON,
                         options |-> {filesOpened(certProject)[i] :
                                          i \in DOMAIN filesOpened(certProject)}]
                   /\ spc' = "submit" /\ UNCHANGED sret
              ELSE SubmitReturn("error") /\ UNCHANGED submission
    /\ UNCHANGED <<offSubmit, sDockerConfig, sfiles, writerOK, certProject, remoteCalls>>

\* certResults, err := s.Pyxis.SubmitResults(ctx, submission)
SubmitSubmitResults ==
    /\ spc = "submit"
    /\ remoteCalls' = Append(remoteCalls, "SubmitResults")
    /\ \E ok \in BOOLEAN : SubmitReturn(IF ok THEN "nil" ELSE "error")
    /\ UNCHANGED <<offSubmit, sDockerConfig, sfiles, writerOK, certProject, submission>>

NextSubmit ==
    \/ SubmitCall
    \/ SubmitGetProject
    \/ SubmitDockerConfig
    \/ SubmitOpenArtifacts
    \/ SubmitSubmitResults

\* one Submit call, with any set of files on disk, with and without a
\* DockerConfig path and a FilesystemWriter
InitSubmit ==
    /\ RunStart
    /\ PolicyStart
    /\ PluginStart
    /\ BuildStart
    /\ spc = "idle"
    /\ sDockerConfig \in {"", DockerConfigFile}
    /\ sfiles \in SUBSET SubmitFiles
    /\ writerOK \in BOOLEAN
    /\ certProject = NoProject
    /\ remoteCalls = <<>>
    /\ sret = "none"
    /\ submission = NoSubmission

SpecSubmit == InitSubmit /\ [][NextSubmit]_vars

\* ------------------------------------------------- a plugin, from Init to Submit
\* Init(ctx, cfg, args) of one of the plugins
PluginInit ==
    /\ plug.stage = "new"
    /\ \E kind \in Plugins, argsOK \in BOOLEAN :
         LET r == pluginInit(kind, bcfg, argsOK)
         IN  plug' = [stage |-> IF r.err THEN "failed" ELSE "initialised",
                      kind |-> kind, err |-> r.err, engine |-> r.engine]
    /\ UNCHANGED <<runVars, policyVars, buildVars, submitVars>>

\* p.engine.ExecuteChecks(ctx) returns nil: the artifacts of the run are on
\* disk
PluginExecuteChecks ==
    /\ plug.stage = "initialised"
    /\ plug' = [plug EXCEPT !.stage = "ran"]
    /\ sfiles' = sfiles \cup engineArtifacts(plug.engine)
    /\ UNCHANGED <<runVars, policyVars, buildVars, spc, sDockerConfig, writerOK,
                   certProject, remoteCalls, sret, submission>>

\* the artifacts of the run are submitted
PluginSubmit ==
    /\ plug.stage = "ran"
    /\ SubmitCall

NextPlugin ==
    \/ PluginInit
    \/ PluginExecuteChecks
    \/ PluginSubmit
    \/ SubmitGetProject
    \/ SubmitDockerConfig
    \/ SubmitOpenArtifacts
    \/ SubmitSubmitResults

\* one plugin under every configuration; the results report, the log file
\* and the DockerConfig file are on disk or not
InitPlugin ==
    /\ RunStart
    /\ PolicyStart
    /\ PluginStart
    /\ bcfg \in ContainerCheckConfigs
    /\ built = <<>>
    /\ spc = "idle"
    /\ sDockerConfig = bcfg.DockerConfig
    /\ sfiles \in SUBSET {DockerConfigFile, DefaultTestResultsFilename, PreflightLogFile}
    /\ writerOK = TRUE
    /\ certProject = NoProject
    /\ remoteCalls = <<>>
    /\ sret = "none"
    /\ submission = NoSubmission

SpecPlugin == InitPlugin /\ [][NextPlugin]_vars

Next ==
    \/ Call
    \/ Cancel
    \/ Pull
    \/ MkdirTemp
    \/ MkdirCache
    \/ MkdirFS
    \/ StartExport
    \/ ExportWrite
    \/ ExportClose
    \/ Untar
    \/ Drain
    \/ ParseReference
    \/ WriteCertImage
    \/ WriteRPMManifest
    \/ RunCheck
    \/ Finish

Spec == Init /\ [][Next]_vars

\* ------------------------------------------------------- auxiliary notions
\* ExecuteChecks has returned nil and no other call has started since
ReturnedNil == pc = "idle" /\ ret = "nil"

\* ExecuteChecks has returned an error and no other call has started since
ReturnedError == pc = "idle" /\ ret = "error"

Optional(i) == Checks[i] = "optional"

\* the names held by a result collection
NamesIn(coll) == {coll[j].Name : j \in 1..Len(coll)}

\* what the call in progress (or the last call) appended to a collection
NewPassed == SubSeq(results.Passed, Len(entryResults.Passed) + 1, Len(results.Passed))

NewFailed == SubSeq(results.Failed, Len(entryResults.Failed) + 1, Len(results.Failed))

NewErrors == SubSeq(results.Errors, Len(entryResults.Errors) + 1, Len(results.Errors))

\* the Validate calls of this call that returned a non-nil error
ErroredCalls == {j \in 1..Len(validated) : validated[j].err}

\* the Validate calls of this call that returned (false, nil)
FailedCalls == {j \in 1..Len(validated) : ~validated[j].err /\ ~validated[j].checkPassed}

\* the checks Validate was called on in this call, in call order
ValidatedChecks == [j \in 1..Len(validated) |-> validated[j].check]

\* --------------------------------------------------------------------- C1
\* C1: after ExecuteChecks returns nil, PassedOverall is true exactly when
\* the Errors and the Failed collection are both empty.
C1_VerdictIffNoErrorsNoFailures ==
    ReturnedNil =>
        (results.PassedOverall <=> (Len(results.Errors) = 0 /\ Len(results.Failed) = 0))

\* a nil return with a failed check, hence a false verdict
C1_Witness ==
    ReturnedNil /\ Len(results.Failed) > 0 /\ Len(results.Errors) = 0
        /\ ~results.PassedOverall

\* --------------------------------------------------------------------- C2
\* C2: on a fresh engine whose N checks are all non-optional, a nil return
\* leaves N results over the three collections, and the verdict is false
\* exactly when some check errored or failed.
C2_FreshEngineCounts ==
    (ReturnedNil /\ runs = 1 /\ \A i \in 1..Len(Checks) : ~Optional(i)) =>
        /\ Len(results.Passed) + Len(results.Failed) + Len(results.Errors) = Len(Checks)
        /\ (results.PassedOverall = FALSE)
               <=> (Cardinality(ErroredCalls) + Cardinality(FailedCalls) > 0)

\* a first run over two or more non-optional checks, one erroring with a true
\* boolean, one failing
C2_Witness ==
    /\ ReturnedNil /\ runs = 1 /\ Len(Checks) >= 2
    /\ \A i \in 1..Len(Checks) : ~Optional(i)
    /\ \E j \in ErroredCalls : validated[j].checkPassed
    /\ FailedCalls # {}

\* --------------------------------------------------------------------- C3
RECURSIVE aggregate(_, _)
\* the collections a loop over the given Validate returns builds from r
aggregate(r, calls) ==
    IF calls = <<>> THEN r
    ELSE aggregate(classify(r, ResultOf(Checks, Head(calls).check),
                            Head(calls).checkPassed, Head(calls).err),
                   Tail(calls))

NotOptionalCall(v) == ~Optional(v.check)

\* the result of this call had the optional checks been absent from c.Checks
WithoutOptional ==
    LET r == aggregate(entryResults, SelectSeq(validated, NotOptionalCall))
    IN [r EXCEPT !.PassedOverall = overallVerdict(r)]

\* C3: an optional check is invoked like any other, never shows in Passed,
\* Failed or Errors, and leaves the collections and the verdict what they
\* would be without it.
C3_OptionalInvokedNotRecorded ==
    /\ \A coll \in {results.Passed, results.Failed, results.Errors} :
          \A j \in 1..Len(coll) : coll[j].Level # "optional"
    /\ ReturnedNil =>
          /\ \A i \in 1..Len(Checks) : \E j \in 1..Len(validated) : validated[j].check = i
          /\ results.Passed = WithoutOptional.Passed
          /\ results.Failed = WithoutOptional.Failed
          /\ results.Errors = WithoutOptional.Errors
          /\ results.PassedOverall = WithoutOptional.PassedOverall

\* a nil return where an optional check errored, another optional check
\* failed, and the verdict is true
C3_Witness ==
    /\ ReturnedNil /\ results.PassedOverall
    /\ \E j \in ErroredCalls : Optional(validated[j].check)
    /\ \E j \in FailedCalls : Optional(validated[j].check)

\* --------------------------------------------------------------------- C4
\* C4: in the check loop Validate is called on the checks one after the
\* other in list order, each once, the earlier outcomes notwithstanding: at
\* loop position idx the calls made are those on checks 1..idx-1, and after
\* a nil return those on all of c.Checks.
C4_EveryCheckOnceInOrder ==
    /\ pc = "loop" =>
          /\ idx \in 1..(Len(Checks) + 1)
          /\ ValidatedChecks = [j \in 1..(idx - 1) |-> j]
    /\ ReturnedNil => ValidatedChecks = [j \in 1..Len(Checks) |-> j]

\* the first check errored or failed and a later check was validated all the same
C4_Witness ==
    /\ ReturnedNil /\ Len(validated) >= 2
    /\ 1 \in ErroredCalls \cup FailedCalls
    /\ validated[Len(validated)].check = Len(Checks)

\* --------------------------------------------------------------------- C5
\* C5: what a call files for a non-optional check is decided by the Validate
\* return alone: a non-nil error puts the check in Errors whatever the
\* boolean, (false, nil) in Failed, (true, nil) in Passed, and in no other
\* collection; a call files each such check once.
C5_OutcomeInExactlyOneCollection ==
    /\ \A j \in 1..Len(validated) :
          LET v == validated[j] IN
          ~Optional(v.check) =>
              /\ (v.check \in NamesIn(NewErrors)) <=> v.err
              /\ (v.check \in NamesIn(NewFailed)) <=> (~v.err /\ ~v.checkPassed)
              /\ (v.check \in NamesIn(NewPassed)) <=> (~v.err /\ v.checkPassed)
    /\ Len(NewPassed) + Len(NewFailed) + Len(NewErrors)
          = Cardinality({j \in 1..Len(validated) : ~Optional(validated[j].check)})

\* a second call on an engine that holds results already: one check returned
\* (true, error) and sits in Errors, the other returned (false, nil) and
\* sits in Failed
C5_Witness ==
    /\ ReturnedNil /\ runs = 2 /\ Len(entryResults.Passed) > 0
    /\ \E j \in ErroredCalls :
          validated[j].checkPassed /\ validated[j].check \in NamesIn(NewErrors)
    /\ \E j \in FailedCalls : validated[j].check \in NamesIn(NewFailed)

\* --------------------------------------------------------------------- C6
\* C6: once the check loop is reached (pull, extraction and artifact writing
\* succeeded) the call can only end by returning nil, whatever the checks
\* return.
C6_CheckErrorNeverFatal ==
    [][(pc = "loop" /\ pc' # "loop") => (pc' = "idle" /\ ret' = "nil")]_vars

\* a nil return of a call in which every one of two or more checks errored
C6_Witness ==
    /\ ReturnedNil /\ Len(validated) >= 2
    /\ ErroredCalls = 1..Len(validated)

\* --------------------------------------------------------------------- C7
\* C7: whenever ExecuteChecks returns while the temporary directory it
\* created exists, the deferred os.RemoveAll(tmpdir) has run by the time the
\* caller has the result.
C7_TmpdirRemovalAttempted ==
    [][(pc # "idle" /\ pc' = "idle" /\ KindOf(fsys, tmpdir) = "dir")
          => removeAttempted']_vars

\* an error return from the rpm-manifest step, the last fallible step before
\* the loop, with the removal attempted
C7_Witness ==
    /\ ReturnedError /\ removeAttempted
    /\ ~IsScratch /\ "cert-image.json" \in artifacts
    /\ "rpm-manifest.json" \notin artifacts

\* --------------------------------------------------------------------- C8
\* the paths ExecuteChecks itself creates before untar runs
OwnPaths == {<<>>, TempDir} \cup {tmpdirOf(r) : r \in 1..runs}
                \cup {imageTarPathOf(r) : r \in 1..runs}

\* C8: untar creates no directory, file or link outside its destination:
\* every path of the file system is one ExecuteChecks made itself or lies
\* under containerFSPath.
C8_NothingOutsideDestination ==
    \A e \in fsys :
        e.path \in OwnPaths \/ \E r \in 1..runs : IsPrefix(containerFSPathOf(r), e.path)

\* C8, second half: a header whose name resolves outside the destination
\* makes untar return an error.
C8_EscapingEntryFails ==
    [][(pc = "untar" /\ pipeItem \in Entries
          /\ ~IsPrefix(containerFSPath, Join(containerFSPath, pipeItem.Name)))
          => (pc' = "idle" /\ ret' = "error")]_vars

\* C9: when GetProject returns a project and a nil error,
\* GetContainerPolicyExceptions returns a nil error and the scratch policy if
\* the project is a scratch project, whatever its privileged flag; otherwise
\* the root policy if its container is privileged; otherwise the standard
\* container policy.
C9_PolicyByPrecedence ==
    (ppc = "done" /\ project.called /\ ~project.err /\ ~project.nil) =>
        /\ resolved.err = "nil"
        /\ project.ScratchProject => resolved.policy = PolicyScratch
        /\ (~project.ScratchProject /\ project.Privileged) =>
               resolved.policy = PolicyRoot
        /\ (~project.ScratchProject /\ ~project.Privileged) =>
               resolved.policy = PolicyContainer

\* a project that is both scratch and privileged was resolved to scratch
C9_Witness ==
    /\ ppc = "done" /\ project.called /\ ~project.err /\ ~project.nil
    /\ project.ScratchProject /\ project.Privileged
    /\ resolved = [policy |-> PolicyScratch, err |-> "nil"]

\* when the project id, the API token or the host is missing
CredentialsMissing == cfg.projectID = "" \/ cfg.token = "" \/ cfg.host = ""

KnownPolicies == {PolicyContainer, PolicyRoot, PolicyScratch}

\* the check names of a returned checklist, in order
NamesOf(r) == [i \in 1..Len(r.checks) |-> r.checks[i].Name]

\* no element occurs twice
NoDuplicates(seq) == \A i, j \in DOMAIN seq : seq[i] = seq[j] => i = j

\* the sequence without the elements of a set, order kept
Without(seq, removed) == SelectSeq(seq, LAMBDA n : n \notin removed)

C12_ExceptionChecklistsAreStandardMinus ==
    \A i, j \in DOMAIN built :
        built[i].policy = PolicyContainer =>
            /\ built[j].policy = PolicyScratch =>
                   NamesOf(built[j].ret) =
                       Without(NamesOf(built[i].ret),
                               {HasNoProhibitedPackagesCheck,
                                HasModifiedFilesCheck, BasedOnUBICheck})
            /\ built[j].policy = PolicyRoot =>
                   NamesOf(built[j].ret) =
                       Without(NamesOf(built[i].ret), {RunAsNonRootCheck})

\* the standard, the scratch and the root checklist were all built
C12_Witness ==
    /\ Len(built) = 3
    /\ built[1].policy = PolicyContainer /\ Len(built[1].ret.checks) = 8
    /\ built[2].policy = PolicyScratch /\ Len(built[2].ret.checks) = 5
    /\ built[3].policy = PolicyRoot /\ Len(built[3].ret.checks) = 7

\* C13: an unknown policy gets a nil checklist and an error, never a default
\* checklist; a known policy never gets an error.
C13_UnknownPolicyIsAnError ==
    \A i \in DOMAIN built :
        /\ built[i].policy \notin KnownPolicies =>
               /\ built[i].ret.err /\ built[i].ret.nil
               /\ built[i].ret.checks = <<>>
        /\ built[i].policy \in KnownPolicies =>
               ~built[i].ret.err /\ ~built[i].ret.nil

\* an unknown policy was refused and a known one was rendered
C13_Witness ==
    /\ Len(built) >= 2
    /\ built[1].policy = "operator" /\ built[1].ret.err /\ built[1].ret.nil
    /\ built[2].policy = PolicyScratch /\ ~built[2].ret.err

\* --------------------------------------------------------------- submission
\* the artifact files every submission needs
RequiredFiles == {DefaultCertImageFilename, DefaultTestResultsFilename, PreflightLogFile}

\* Submit has returned
SubmitReturned == spc = "idle" /\ sret # "none"

\* the remote call was made
Called(name) == \E i \in DOMAIN remoteCalls : remoteCalls[i] = name

\* C14: when a required artifact file is missing, Submit returns an error
\* and has made no call to the remote authority, neither GetProject nor
\* SubmitResults.
C14_MissingFileFailsBeforeRemoteCall ==
    (SubmitReturned /\ ~(RequiredFiles \subseteq sfiles)) =>
        (sret = "error" /\ remoteCalls = <<>>)

\* C15: when GetProject returned an error or a nil project, Submit has
\* returned an error and SubmitResults is never called.
C15_NoProjectNoSubmission ==
    (certProject.called /\ (certProject.err \/ certProject.nil)) =>
        (SubmitReturned /\ sret = "error" /\ ~Called("SubmitResults"))

\* GetProject returned a nil project without an error, with every file in
\* place, and Submit returned an error
C15_Witness ==
    /\ certProject.called /\ ~certProject.err /\ certProject.nil
    /\ sfiles = SubmitFiles /\ writerOK
    /\ SubmitReturned /\ sret = "error" /\ remoteCalls = <<"GetProject">>

\* ---------------------------------------------------------------------- C16
\* the collections and the verdict of a results value
Outcome(r) == <<r.Passed, r.Failed, r.Errors, r.PassedOverall>>

\* C16: when ExecuteChecks has returned an error, no Validate was invoked in
\* that call and the result collections and the verdict are what they were
\* when the call was entered; when it has returned nil, every check of the
\* checklist was invoked and the verdict was set from the collections.
C16_ErrorReturnLeavesResultsAlone ==
    /\ ReturnedError =>
          (validated = <<>> /\ Outcome(results) = Outcome(entryResults))
    /\ ReturnedNil =>
          /\ ValidatedChecks = [j \in 1..Len(Checks) |-> j]
          /\ results.PassedOverall = overallVerdict(results)

\* a second call failed on an engine whose first call had recorded outcomes
C16_Witness ==
    /\ ReturnedError /\ runs = 2
    /\ Len(results.Passed) + Len(results.Failed) + Len(results.Errors) > 0
    /\ results = entryResults

\* ---------------------------------------------------------------------- C17
\* C17: once the ctx is cancelled while ExecuteChecks extracts the filesystem
\* or runs the check loop, no further check is invoked, the results are not
\* touched, and the call ends with an error.
C17_CancellationStopsTheRun ==
    [][(cancelled /\ pc \in {"untar", "loop"}) =>
          /\ validated' = validated
          /\ results' = results
          /\ pc' = "idle" => ret' = "error"]_vars

\* ---------------------------------------------------------------------- C18
\* the image was given by digest
GivenByDigest == Image[2] = "@"

\* the elements of a sequence
Range(seq) == {seq[i] : i \in DOMAIN seq}

\* what the Validate returns of this call alone make of the results at entry
FromOutcomesAlone ==
    LET r == aggregate(entryResults, validated)
    IN [r EXCEPT !.PassedOverall = overallVerdict(r)]

\* C18: the line logged after the verdict is the no-tag warning, with warn
\* true, when the image was given by digest, and otherwise names the tag and
\* the resolved digest, with warn false; the collections and PassedOverall
\* are what the Validate returns make them, whichever line is logged.
C18_BindingMessageIsAdvisory ==
    ReturnedNil =>
        /\ Outcome(results) = Outcome(FromOutcomesAlone)
        /\ logged # NoMessage =>
              IF GivenByDigest
              THEN logged.warn /\ logged.msg = NoTagMessage
              ELSE /\ ~logged.warn
                   /\ Range(Identifier(Image)) \subseteq Range(logged.msg)
                   /\ Range(ResolvedDigest) \subseteq Range(logged.msg)

\* a run on an image given by digest logged the warning and failed a check
C18_Witness ==
    /\ ReturnedNil /\ GivenByDigest
    /\ logged.warn /\ logged.msg = NoTagMessage
    /\ Len(results.Failed) = 1 /\ ~results.PassedOverall

\* ---------------------------------------------------------------------- C19
\* C19: after ExecuteChecks returns nil, Results().TestedImage is the
\* engine's Image, whatever the length of the checklist.
C19_TestedImageIsImage == ReturnedNil => results.TestedImage = Image

\* ---------------------------------------------------------------------- C20
\* the positions of ExecuteChecks, in the order of the code
PcOrder ==
    <<"pull", "mktemp", "mkcache", "mkfs", "pipe", "untar", "drain", "parse",
      "certimage", "rpm", "loop">>

\* where a position comes in that order
PcRank(p) == CHOOSE i \in DOMAIN PcOrder : PcOrder[i] = p

\* the stage a position belongs to: pull, temporary directory, export and
\* extraction, certification-image record, package manifest, check loop
StageOf(p) ==
    CASE p = "pull" -> 1
      [] p \in {"mktemp", "mkcache", "mkfs"} -> 2
      [] p \in {"pipe", "untar", "drain"} -> 3
      [] p \in {"parse", "certimage"} -> 4
      [] p = "rpm" -> 5
      [] p = "loop" -> 6

\* C20: within a call the stages come in the order pull, temporary
\* directory, export and extraction, certification-image record, package
\* manifest (only when not scratch), check loop, verdict; the call never goes
\* back to a stage it has left; a call that ends before the check loop ends
\* with an error, and only the step after the loop returns nil.
C20_StagesInFixedOrder ==
    [][pc' # pc =>
          \/ pc = "idle" /\ pc' = "pull"
          \/ pc # "idle" /\ pc' = "idle"
                /\ ret' = (IF pc = "loop" THEN "nil" ELSE "error")
          \/ /\ pc # "idle" /\ pc' # "idle"
             /\ PcRank(pc') > PcRank(pc)
             /\ \/ StageOf(pc') \in {StageOf(pc), StageOf(pc) + 1}
                \/ pc = "certimage" /\ pc' = "loop" /\ IsScratch
             /\ pc' = "rpm" => ~IsScratch]_vars

\* a call on an engine that is not scratch went through every stage
C20_Witness ==
    /\ ReturnedNil /\ ~IsScratch /\ runs = 1
    /\ {DefaultCertImageFilename, DefaultRPMManifestFilename} \subseteq artifacts
    /\ Len(validated) = Len(Checks) /\ Len(Checks) > 0

\* ---------------------------------------------------------------------- C21
\* C21: a call that reached the building of the package manifest runs every
\* check and returns nil, whether or not the manifest could be built.
C21_ManifestFailureNotFatal ==
    (pc = "idle" /\ pkgScan # "none") =>
        (ret = "nil" /\ ValidatedChecks = [j \in 1..Len(Checks) |-> j])

\* ---------------------------------------------------------------------- C22
\* C22: with IsScratch true no package scan is made and rpm-manifest.json is
\* never written; the scan and the manifest belong to runs with IsScratch
\* false.
C22_ManifestOnlyWhenNotScratch ==
    /\ IsScratch => (pkgScan = "none" /\ pc # "rpm"
                      /\ DefaultRPMManifestFilename \notin artifacts)
    /\ (pkgScan # "none" \/ DefaultRPMManifestFilename \in artifacts) => ~IsScratch

\* a scratch run wrote the certification-image record, ran its checks and
\* returned nil without a manifest
C22_Witness ==
    /\ ReturnedNil /\ IsScratch /\ Len(validated) > 0
    /\ artifacts = {DefaultCertImageFilename}

\* ---------------------------------------------------------------------- C23
\* the positions of ExecuteChecks that follow the drain of the pipe
AfterDrain == {"parse", "certimage", "rpm", "loop"}

\* C23: ExecuteChecks is past the drain, at the certification-image record
\* or later, only when the exporter has closed the pipe: no write is
\* pending and the goroutine has ended.
C23_DrainedBeforeCertImage ==
    pc \in AfterDrain =>
        (exporter = "done" /\ pipeClosed # "open" /\ pipeItem = NoItem)

\* the archive of an image with an entry was extracted and drained, and the
\* call stands at the certification-image record with the goroutine ended
C23_Witness ==
    /\ pc = "certimage" /\ imageEntries > 0
    /\ exporter = "done" /\ pipeClosed = "eof" /\ pipeItem = NoItem

\* ---------------------------------------------------------------------- C24
\* C24: once the exporter has closed the pipe with an error, during the
\* extraction or after the end of the archive was read, the next step of
\* ExecuteChecks is an error return with no check run; a pipe closed without
\* an error is end-of-stream and lets the call go on to the
\* certification-image record.
C24_ExporterFailureReachesReader ==
    [][/\ (pc \in {"untar", "drain"} /\ pipeClosed = "err" /\ pc' # pc) =>
             (pc' = "idle" /\ ret' = "error" /\ validated' = <<>>)
       /\ (pc = "drain" /\ pipeClosed = "eof" /\ pc' # pc) => pc' = "parse"
       /\ pc' \in AfterDrain => pipeClosed' = "eof"]_vars

\* the exporter failed after the extractor had read the end of the archive
C24_Witness ==
    /\ pc = "drain" /\ pipeClosed = "err" /\ exporter = "done"
    /\ pipeItem = NoItem /\ imageEntries > 0

\* ---------------------------------------------------------------------- C27
\* C27: when ExecuteChecks has returned, the exporter goroutine it started
\* is not blocked in a write to the pipe, which nothing reads any more.
C27_ExporterNeverLeftBlocked ==
    (pc = "idle" /\ runs > 0) => (exporter # "blocked" /\ ~leaked)

\* ---------------------------------------------------------------------- C28
\* C28: after a nil return, on the first call or a later one, each
\* non-optional check of the checklist is named exactly once across Passed,
\* Failed and Errors.
C28_ResultsDescribeLastRunOnly ==
    LET Occurrences(coll, i) == Cardinality({j \in 1..Len(coll) : coll[j].Name = i})
    IN  ReturnedNil =>
            \A i \in 1..Len(Checks) :
                ~Optional(i) =>
                    Occurrences(results.Passed, i) + Occurrences(results.Failed, i)
                        + Occurrences(results.Errors, i) = 1

\* ---------------------------------------------------------------------- C29
\* C29: from the start of the extraction to the end of the check loop the
\* temporary directory and the extracted filesystem directory in it exist,
\* so they exist at every Validate call; they are removed only by the step
\* that ends the call.
C29_ImageFSPathExistsDuringChecks ==
    pc \in {"untar", "drain", "parse", "certimage", "rpm", "loop"} =>
        /\ KindOf(fsys, tmpdir) = "dir"
        /\ KindOf(fsys, containerFSPath) = "dir"
        /\ ~removeAttempted

\* the second check of a call is about to be validated on an extracted
\* filesystem that is in place
C29_Witness ==
    /\ pc = "loop" /\ idx = 2 /\ Len(Checks) = 2 /\ Len(validated) = 1
    /\ KindOf(fsys, containerFSPath) = "dir"

\* ---------------------------------------------------------------------- C25
\* C25: the project record of a built submission carries the content of the
\* DockerConfig file when a DockerConfig path was given and the registry is
\* not hosted, and the empty string otherwise, whatever GetProject returned.
C25_DockerConfigJSONAttachedOrStripped ==
    submission.built =>
        submission.DockerConfigJSON =
            (IF sDockerConfig # "" /\ ~certProject.HostedRegistry
             THEN DockerConfigContent ELSE "")

\* GetProject returned the encrypted string, no DockerConfig path was given,
\* and the record was submitted with an empty DockerConfigJSON
C25_Witness ==
    /\ Called("SubmitResults") /\ submission.built
    /\ certProject.fetched = "pgp-encrypted" /\ ~certProject.HostedRegistry
    /\ sDockerConfig = ""
    /\ submission.DockerConfigJSON = ""

\* ---------------------------------------------------------------------- C26
\* the four artifact files of a run
ArtifactFiles == RequiredFiles \cup {DefaultRPMManifestFilename}

\* C26 as stated: SubmitResults is called only with all four artifact files
\* on disk.
C26_AllFourFilesPresent ==
    Called("SubmitResults") => ArtifactFiles \subseteq sfiles

\* C26: SubmitResults is called only with the certification-image record,
\* the results report and the log file on disk, and with the package
\* manifest on disk unless the project is a scratch project; Submit returns
\* an error without calling it when one of those is missing.
C26_DemandedFilesPresent ==
    /\ Called("SubmitResults") =>
          /\ RequiredFiles \subseteq sfiles
          /\ ~certProject.ScratchProject => DefaultRPMManifestFilename \in sfiles
    /\ (/\ SubmitReturned
        /\ \/ ~(RequiredFiles \subseteq sfiles)
           \/ (/\ certProject.called /\ ~certProject.err /\ ~certProject.nil
               /\ ~certProject.ScratchProject
               /\ DefaultRPMManifestFilename \notin sfiles)) =>
          (sret = "error" /\ ~Called("SubmitResults"))

\* a project that is not scratch, the package manifest alone missing, and
\* Submit returned an error after GetProject only
C26_Witness ==
    /\ SubmitReturned /\ sret = "error"
    /\ certProject.called /\ ~certProject.err /\ ~certProject.nil
    /\ ~certProject.ScratchProject
    /\ RequiredFiles \subseteq sfiles /\ DefaultRPMManifestFilename \notin sfiles
    /\ writerOK
    /\ remoteCalls = <<"GetProject">>

\* ---------------------------------------------------------------------- C30
\* the names of a checklist, in order
CheckNames(checks) == [i \in 1..Len(checks) |-> checks[i].Name]

\* the first half of C30: the engine a plugin's Init built has the scratch
\* flag set exactly when its checklist is the scratch checklist
C30_EngineFlagMatchesChecklist ==
    ~plug.engine.nil =>
        (plug.engine.IsScratch <=>
             CheckNames(plug.engine.Checks) = CheckNames(scratchChecks(bcfg)))

\* C30: one policy governs a run: the engine a plugin's Init built has the
\* scratch flag set exactly when its checklist is the scratch checklist, and
\* Submit, once it has the project record, demands the package manifest
\* exactly when the run that wrote the artifacts was not a scratch run.
C30_OnePolicyGovernsARun ==
    LET ProjectFetched == certProject.called /\ ~certProject.err /\ ~certProject.nil
        ManifestDemanded ==
            \E i \in DOMAIN filesOpened(certProject) :
                filesOpened(certProject)[i] = DefaultRPMManifestFilename
    IN  /\ ~plug.engine.nil =>
              (plug.engine.IsScratch <=>
                   CheckNames(plug.engine.Checks) = CheckNames(scratchChecks(bcfg)))
        /\ (plug.stage = "ran" /\ ProjectFetched) =>
              (ManifestDemanded <=> ~plug.engine.IsScratch)

====
